---- MODULE Spec2Model ----
(***************************************************************************)
(* Model of the terminal-bridging helpers of vault-code:                   *)
(*   src/scripts/terminal_pty.py   POSIX relay (select loop)               *)
(*   src/terminal_win.py           Windows relay (reader thread)           *)
(*   src/terminal_pty.py           older POSIX relay (while True loop)     *)
(* Bytes are their integer values; a chunk is a sequence of bytes.         *)
(***************************************************************************)
EXTENDS Integers, Sequences, FiniteSets, TLC

(* ------------------------------------------------------------------ *)
(* Bytes of the wire format                                             *)
(* ------------------------------------------------------------------ *)
ESC == 27
BEL == 7
SEMI == 59
MINUS == 45
CH_a == 97
\* b'\x1b]RESIZE;' : ESC ] R E S I Z E ;
INTRO == <<27, 93, 82, 69, 83, 73, 90, 69, 59>>
\* number of bytes skipped after start: data[start+9:end]
INTRO_SKIP == 9
\* size argument of os.read
READ_SIZE == 16384
\* largest value struct format 'H' packs
USHORT_MAX == 65535

Digits == 48..57

(* ------------------------------------------------------------------ *)
(* bytes helpers (Python bytes semantics on 1-based sequences)          *)
(* ------------------------------------------------------------------ *)
\* s[a:b] for 1-based inclusive positions, empty when b < a
Slice(s, a, b) == IF b < a THEN <<>> ELSE SubSeq(s, a, b)

\* positions i >= from at which pat occurs in data
Occurrences(pat, data, from) ==
    {i \in from..(Len(data) - Len(pat) + 1) : SubSeq(data, i, i + Len(pat) - 1) = pat}

\* pat in data
Contains(pat, data) == Occurrences(pat, data, 1) # {}

\* data.index(pat, from): lowest position, 0 stands for ValueError
IndexOf(pat, data, from) ==
    LET occ == Occurrences(pat, data, from)
    IN IF occ = {} THEN 0 ELSE CHOOSE i \in occ : \A j \in occ : i <= j

\* str.split(sep): the fields between the separators, in order
RECURSIVE Split(_, _)
Split(s, sep) ==
    LET p == IndexOf(<<sep>>, s, 1)
    IN IF p = 0 THEN <<s>>
       ELSE <<Slice(s, 1, p - 1)>> \o Split(Slice(s, p + 1, Len(s)), sep)

\* bytes.decode(): UnicodeDecodeError (a ValueError) on a byte that is not text
Decodable(s) == \A i \in 1..Len(s) : s[i] < 128

\* value of a non-empty run of ASCII digits
RECURSIVE DigitsValue(_)
DigitsValue(s) ==
    IF s = <<>> THEN 0
    ELSE 10 * DigitsValue(Slice(s, 1, Len(s) - 1)) + (s[Len(s)] - 48)

AllDigits(s) == s # <<>> /\ \A i \in 1..Len(s) : s[i] \in Digits

\* int(str) succeeds: optional sign, then digits
IsInt(s) ==
    \/ AllDigits(s)
    \/ Len(s) > 1 /\ s[1] = MINUS /\ AllDigits(Slice(s, 2, Len(s)))

\* int(str)
IntOf(s) ==
    IF s[1] = MINUS THEN 0 - DigitsValue(Slice(s, 2, Len(s))) ELSE DigitsValue(s)

\* d[a..b] is [0-9]+;[0-9]+
DigitsPair(d, a, b) ==
    \E m \in a..b :
        /\ d[m] = SEMI
        /\ AllDigits(Slice(d, a, m - 1))
        /\ AllDigits(Slice(d, m + 1, b))

(* ------------------------------------------------------------------ *)
(* set_size                                                             *)
(* ------------------------------------------------------------------ *)
\* struct.pack('HHHH', ...) accepts the value (struct.error otherwise)
PackOK(v) == 0 <= v /\ v <= USHORT_MAX

\* columns and rows packed in the wrong order
PackWinsize_Swapped(cols, rows) == <<cols, rows, 0, 0>>

\* struct.pack('HHHH', rows, cols, 0, 0)
PackWinsize(cols, rows) == <<rows, cols, 0, 0>>

\* ioctl(fd, TIOCSWINSZ, winsize): struct winsize {ws_row, ws_col, ws_xpixel, ws_ypixel}
\* (the ioctl on the open master descriptor is taken to succeed)
set_size(cols, rows) ==
    LET w == PackWinsize(cols, rows)
    IN [ws_row |-> w[1], ws_col |-> w[2]]

(* ------------------------------------------------------------------ *)
(* the resize scan of one host-input chunk (POSIX)                      *)
(* ------------------------------------------------------------------ *)
\* what follows the break of the scan: the chunk's first introducer
ScanStart(data) == IndexOf(INTRO, data, 1)

\* the data after one directive is cut out: data[:start] + data[end+1:]
CutDirective(data, start, end) ==
    Slice(data, 1, start - 1) \o Slice(data, end + 1, Len(data))

\* a scan that drops the directive it cannot parse, with what follows it
ScanBreak_Drop(data, applied) ==
    [data |-> Slice(data, 1, ScanStart(data) - 1), applied |-> applied,
     outcome |-> "ValueError"]

\* except (ValueError, IndexError): break -- the data stays as it is
ScanBreak(data, applied) ==
    [data |-> data, applied |-> applied, outcome |-> "ValueError"]

\* while b'\x1b]RESIZE;' in data: ... ; applied collects the (cols, rows) set
\* outcome: "done" loop ended, "ValueError" break, "struct.error" propagates
RECURSIVE ResizeScan(_, _)
ResizeScan(data, applied) ==
    IF ~Contains(INTRO, data)
    THEN [data |-> data, applied |-> applied, outcome |-> "done"]
    ELSE LET start == ScanStart(data)
             end == IndexOf(<<BEL>>, data, start)
             resize_data == Slice(data, start + INTRO_SKIP, end - 1)
             parts == Split(resize_data, SEMI)
         IN IF \/ end = 0
               \/ ~Decodable(resize_data)
               \/ Len(parts) # 2
               \/ ~IsInt(parts[1])
               \/ ~IsInt(parts[2])
            THEN ScanBreak(data, applied)
            ELSE LET c == IntOf(parts[1])
                     r == IntOf(parts[2])
                 IN IF ~PackOK(c) \/ ~PackOK(r)
                    THEN [data |-> data, applied |-> applied,
                          outcome |-> "struct.error"]
                    ELSE ResizeScan(CutDirective(data, start, end),
                                    Append(applied, <<c, r>>))

(* ------------------------------------------------------------------ *)
(* Bounds and inputs                                                    *)
(* ------------------------------------------------------------------ *)
\* host-input chunks the host sends in one run of the relay
MaxChunks == 2
\* bytes the shell writes to the PTY in one run
MaxOutput == 2
\* pieces concatenated into one chunk of the codec specification
MaxPieces == 3
\* chunks the shell writes to the ConPTY in one run
MaxWinOutput == 1

\* exit codes the shell may exit with
ExitCodes == {0, 3, 255}
\* argv columns, rows
InitCols == 80
InitRows == 24

\* ASCII decimal fields
N100 == <<49, 48, 48>>
N40 == <<52, 48>>
N7 == <<55>>
N9 == <<57>>
N0 == <<48>>
N70000 == <<55, 48, 48, 48, 48>>
NNeg1 == <<45, 49>>

\* ESC ] RESIZE ; c ; r BEL
Directive(c, r) == INTRO \o c \o <<SEMI>> \o r \o <<BEL>>

\* ESC ] R E S : the head of an introducer
IntroHead == <<27, 93, 82, 69, 83>>
\* I Z E ; 7 ; 9 BEL : the tail of an introducer with a payload and terminator
IntroTail == <<73, 90, 69, 59>> \o N7 \o <<SEMI>> \o N9 \o <<BEL>>

\* the byte strings chunks of the codec specification are built from
Pieces ==
    { Directive(N100, N40),
      INTRO,
      IntroHead,
      IntroTail,
      N7 \o <<SEMI>> \o N9,
      <<BEL>>,
      <<CH_a>>,
      <<SEMI>>,
      N0 \o <<SEMI>> \o N40,
      N70000 \o <<SEMI>> \o N40,
      NNeg1 \o <<SEMI>> \o N40,
      <<CH_a>> \o <<SEMI>> \o N40 }

RECURSIVE Concat(_)
Concat(ss) == IF ss = <<>> THEN <<>> ELSE Head(ss) \o Concat(Tail(ss))

\* every concatenation of 1..MaxPieces pieces
CodecChunks ==
    UNION { {Concat(ps) : ps \in [1..n -> Pieces]} : n \in 1..MaxPieces }

\* chunks the host sends to the running relay
RelayChunks ==
    { <<CH_a>>,
      Directive(N100, N40),
      <<CH_a>> \o Directive(N100, N40) \o <<CH_a>> \o Directive(N7, N9),
      Directive(N70000, N40),
      Directive(N0, N40) }

(* ------------------------------------------------------------------ *)
(* State of the POSIX relay, src/scripts/terminal_pty.py                *)
(* ------------------------------------------------------------------ *)
VARIABLES
    pc,          \* position of main: "select", "serve", "wait", "exited"
    rlist,       \* ready descriptors still to serve in this iteration
    running,     \* the loop flag
    winsize,     \* window size of the PTY
    stdin_flags, \* file-status flags of stdin: "nonblock" or "orig"
    stdinPipe,   \* chunks the host wrote and the relay has not read
    hostClosed,  \* the host closed its ends of the pipes
    sent,        \* chunks sent so far
    ptyOutBuf,   \* bytes the shell wrote to the PTY, not yet read
    produced,    \* bytes the shell has written so far
    hostOut,     \* bytes written to host output
    ptyLog,      \* what the relay did to the PTY, in order: resizes and writes
    consumed,    \* chunks read from host input, in order
    last,        \* the last host-input chunk served and what the scan made of it
    childExit,   \* exit code of the shell, -1 while it runs
    hup,         \* the PTY slave side is closed: reads of the master hit EOF/EIO
    reapable,    \* what waitpid finds: "no" (0, 0), "zombie" (pid, status),
                 \* "reaped" (SIGCHLD ignored, the kernel reaped: ECHILD)
    eofSeen,     \* the read of host input returned b''
    ptyEofSeen,  \* the read of the PTY returned b'' or raised OSError
    exitCode,    \* exit code of the helper, -1 while it runs
    exitVia      \* "sys.exit", "return", "traceback"; "none" while it runs

posixVars == <<pc, rlist, running, winsize, stdin_flags, stdinPipe, hostClosed, sent,
               ptyOutBuf, produced, hostOut, ptyLog, consumed, last, childExit, hup,
               reapable, eofSeen, ptyEofSeen, exitCode, exitVia>>

(* ------------------------------------------------------------------ *)
(* State of the Windows relay, src/terminal_win.py                      *)
(* ------------------------------------------------------------------ *)
VARIABLES
    wpc,         \* position of main: "spawn", "test", "read1", "peek", "payload", "exited"
    rpc,         \* position of read_output: "idle", "test", "read", "done"
    wrunning,    \* the nonlocal flag running
    wPending,    \* bytes the host has still to write to stdin
    wIn,         \* bytes in the stdin pipe, not yet read
    wHostGone,   \* the host closed its ends of the pipes
    resize_data, \* bytes collected after ESC ]RESIZE
    wSize,       \* <<cols, rows>> of the ConPTY
    wPtyLog,     \* what main did to the PTY, in order: resizes and writes
    wPtyOut,     \* chunks the shell wrote, not yet read
    wProduced,   \* chunks the shell has written so far
    wOut,        \* bytes written to host output
    wChildExit,  \* exit code of the shell, -1 while it is alive
    wReadErr,    \* read_output caught an exception
    wSpin,       \* main read b'' while collecting resize_data
    wExit        \* exit code of the helper, -1 while it runs

winVars == <<wpc, rpc, wrunning, wPending, wIn, wHostGone, resize_data, wSize,
             wPtyLog, wPtyOut, wProduced, wOut, wChildExit, wReadErr, wSpin, wExit>>

vars == <<posixVars, winVars>>

hostVars == <<stdinPipe, hostClosed, sent>>
shellVars == <<ptyOutBuf, produced, childExit, hup, reapable>>
ioVars == <<hostOut, ptyLog, consumed, last, winsize, eofSeen, ptyEofSeen>>
exitVars == <<exitCode, exitVia, stdin_flags>>

NoLast == [chunk |-> <<>>, outcome |-> "none", data |-> <<>>, applied |-> <<>>,
           wrote |-> FALSE, before |-> set_size(InitCols, InitRows)]

\* main up to the loop: fork, set_size(fd, cols, rows), stdin non-blocking
MainSetup(chunks) ==
    /\ pc = "select"
    /\ rlist = <<>>
    /\ running = TRUE
    /\ winsize = set_size(InitCols, InitRows)
    /\ stdin_flags = "nonblock"
    /\ stdinPipe \in {<<>>} \cup {<<c>> : c \in chunks}
    /\ hostClosed = FALSE
    /\ sent = Len(stdinPipe)
    /\ ptyOutBuf = <<>>
    /\ produced = 0
    /\ hostOut = <<>>
    /\ ptyLog = <<>>
    /\ consumed = <<>>
    /\ last = NoLast
    /\ childExit = -1
    /\ hup = FALSE
    /\ reapable = "no"
    /\ eofSeen = FALSE
    /\ ptyEofSeen = FALSE
    /\ exitCode = -1
    /\ exitVia = "none"

\* terminal_win.py main before PTY(cols, rows)
WinSetup(inputs) ==
    /\ wpc = "spawn"
    /\ rpc = "idle"
    /\ wrunning = FALSE
    /\ wPending \in inputs
    /\ wIn = <<>>
    /\ wHostGone = FALSE
    /\ resize_data = <<>>
    /\ wSize = <<InitCols, InitRows>>
    /\ wPtyLog = <<>>
    /\ wPtyOut = <<>>
    /\ wProduced = 0
    /\ wOut = <<>>
    /\ wChildExit = -1
    /\ wReadErr = FALSE
    /\ wSpin = FALSE
    /\ wExit = -1

Init ==
    /\ MainSetup(RelayChunks)
    /\ WinSetup({<<>>})

(* ------------------------------------------------------------------ *)
(* Leaving main                                                         *)
(* ------------------------------------------------------------------ *)
\* exit code of the interpreter when main returns
ReturnCode == 0
\* exit code of the interpreter on an uncaught exception
TracebackCode == 1

\* the process ends with the code and stdin is left as the loop had it
Leave_NoRestore(via, code) ==
    /\ UNCHANGED stdin_flags
    /\ pc' = "exited"
    /\ exitVia' = via
    /\ exitCode' = code

\* finally: restore the flags; then the process ends with the code
Leave(via, code) ==
    /\ stdin_flags' = "orig"
    /\ pc' = "exited"
    /\ exitVia' = via
    /\ exitCode' = code

\* the loop ends (break, or while running is false): main returns
LoopEnds == Leave("return", ReturnCode)

(* ------------------------------------------------------------------ *)
(* The loop of main                                                     *)
(* ------------------------------------------------------------------ *)
PtyReady == ptyOutBuf # <<>> \/ hup
StdinReady == stdinPipe # <<>> \/ hostClosed

\* rlist of select.select([fd, stdin_fd], [], [], 0.05)
ReadyList ==
    (IF PtyReady THEN <<"pty">> ELSE <<>>) \o (IF StdinReady THEN <<"stdin">> ELSE <<>>)

\* select returns (ready descriptors, or none after the timeout)
Select ==
    /\ pc = "select"
    /\ rlist' = ReadyList
    /\ pc' = IF ReadyList = <<>> THEN "wait" ELSE "serve"
    /\ UNCHANGED <<running, hostVars, shellVars, ioVars, exitVars,
                   winVars>>

\* except select.error: break
SelectError ==
    /\ pc = "select"
    /\ LoopEnds
    /\ UNCHANGED <<rlist, running, hostVars, shellVars, ioVars,
                   winVars>>

\* after one descriptor is served without a break
NextReady == IF Tail(rlist) = <<>> THEN "wait" ELSE "serve"

\* os.read(fd, 16384)
ReadPty == Slice(ptyOutBuf, 1, IF Len(ptyOutBuf) < READ_SIZE THEN Len(ptyOutBuf) ELSE READ_SIZE)

\* ready_fd == fd, data read and written to stdout
ServePtyData ==
    /\ pc = "serve" /\ rlist # <<>> /\ Head(rlist) = "pty"
    /\ ptyOutBuf # <<>>
    /\ hostOut' = hostOut \o ReadPty
    /\ ptyOutBuf' = Slice(ptyOutBuf, Len(ReadPty) + 1, Len(ptyOutBuf))
    /\ rlist' = Tail(rlist)
    /\ pc' = NextReady
    /\ UNCHANGED <<running, hostVars, produced, childExit, hup, reapable, ptyLog,
                   consumed, last, winsize, eofSeen, ptyEofSeen, exitVars,
                   winVars>>

\* ready_fd == fd, the read returns b'' or raises OSError,
\* or the write to stdout raises OSError (the host is gone): running = False; break
ServePtyEnd ==
    /\ pc = "serve" /\ rlist # <<>> /\ Head(rlist) = "pty"
    /\ \/ ptyOutBuf = <<>> /\ ptyEofSeen' = TRUE /\ UNCHANGED ptyOutBuf
       \/ /\ ptyOutBuf # <<>> /\ hostClosed
          /\ ptyOutBuf' = Slice(ptyOutBuf, Len(ReadPty) + 1, Len(ptyOutBuf))
          /\ UNCHANGED ptyEofSeen
    /\ running' = FALSE
    /\ pc' = "wait"
    /\ UNCHANGED <<rlist, hostVars, produced, childExit, hup, reapable, hostOut,
                   ptyLog, consumed, last, winsize, eofSeen, exitVars,
                   winVars>>

\* an empty read of host input that is skipped and leaves the loop running
ServeStdinEof_Ignored ==
    /\ pc = "serve" /\ rlist # <<>> /\ Head(rlist) = "stdin"
    /\ stdinPipe = <<>>
    /\ eofSeen' = TRUE
    /\ rlist' = Tail(rlist)
    /\ pc' = NextReady
    /\ UNCHANGED <<running, hostVars, shellVars, hostOut, ptyLog, consumed, last,
                   winsize, ptyEofSeen, exitVars,
                   winVars>>

\* ready_fd == stdin_fd, the read returns b'': running = False; break
ServeStdinEof ==
    /\ pc = "serve" /\ rlist # <<>> /\ Head(rlist) = "stdin"
    /\ stdinPipe = <<>>
    /\ eofSeen' = TRUE
    /\ running' = FALSE
    /\ pc' = "wait"
    /\ UNCHANGED <<rlist, hostVars, shellVars, hostOut, ptyLog, consumed, last,
                   winsize, ptyEofSeen, exitVars,
                   winVars>>

\* the resizes of one scan as entries of the PTY log
RECURSIVE ResizeEvents(_)
ResizeEvents(applied) ==
    IF applied = <<>> THEN <<>>
    ELSE <<[op |-> "resize", data |-> Head(applied)]>> \o ResizeEvents(Tail(applied))

\* the window size after the set_size calls of one scan
SizeAfter(size, applied) ==
    IF applied = <<>> THEN size
    ELSE set_size(applied[Len(applied)][1], applied[Len(applied)][2])

\* a relay that writes the rest of the chunk first and resizes afterwards
ServeStdinChunk_WriteFirst(wrote) ==
    /\ pc = "serve" /\ rlist # <<>> /\ Head(rlist) = "stdin"
    /\ stdinPipe # <<>>
    /\ wrote \/ hup
    /\ LET chunk == Head(stdinPipe)
           res == ResizeScan(chunk, <<>>)
           writes == IF res.data # <<>> /\ wrote /\ res.outcome # "struct.error"
                     THEN <<[op |-> "write", data |-> res.data]>> ELSE <<>>
       IN /\ wrote \/ (res.data # <<>> /\ res.outcome # "struct.error")
          /\ stdinPipe' = Tail(stdinPipe)
          /\ consumed' = Append(consumed, chunk)
          /\ winsize' = SizeAfter(winsize, res.applied)
          /\ ptyLog' = ptyLog \o writes \o ResizeEvents(res.applied)
          /\ last' = [chunk |-> chunk, outcome |-> res.outcome, data |-> res.data,
                      applied |-> res.applied, wrote |-> wrote, before |-> winsize]
          /\ IF res.outcome = "struct.error"
             THEN /\ Leave("traceback", TracebackCode)
                  /\ UNCHANGED <<rlist, running>>
             ELSE /\ running' = (running /\ wrote)
                  /\ rlist' = IF wrote THEN Tail(rlist) ELSE rlist
                  /\ pc' = IF wrote THEN NextReady ELSE "wait"
                  /\ UNCHANGED exitVars
    /\ UNCHANGED <<hostClosed, sent, shellVars, hostOut, eofSeen, ptyEofSeen,
                   winVars>>

\* ready_fd == stdin_fd, a chunk is read, scanned and the rest written to the PTY
\* wrote: os.write(fd, data) succeeded; it may raise OSError once the slave is closed
ServeStdinChunk(wrote) ==
    /\ pc = "serve" /\ rlist # <<>> /\ Head(rlist) = "stdin"
    /\ stdinPipe # <<>>
    /\ wrote \/ hup
    /\ LET chunk == Head(stdinPipe)
           res == ResizeScan(chunk, <<>>)
           writes == IF res.data # <<>> /\ wrote /\ res.outcome # "struct.error"
                     THEN <<[op |-> "write", data |-> res.data]>> ELSE <<>>
       IN /\ wrote \/ (res.data # <<>> /\ res.outcome # "struct.error")
          /\ stdinPipe' = Tail(stdinPipe)
          /\ consumed' = Append(consumed, chunk)
          /\ winsize' = SizeAfter(winsize, res.applied)
          /\ ptyLog' = ptyLog \o ResizeEvents(res.applied) \o writes
          /\ last' = [chunk |-> chunk, outcome |-> res.outcome, data |-> res.data,
                      applied |-> res.applied, wrote |-> wrote, before |-> winsize]
          /\ IF res.outcome = "struct.error"
             THEN /\ Leave("traceback", TracebackCode)
                  /\ UNCHANGED <<rlist, running>>
             ELSE /\ running' = (running /\ wrote)
                  /\ rlist' = IF wrote THEN Tail(rlist) ELSE rlist
                  /\ pc' = IF wrote THEN NextReady ELSE "wait"
                  /\ UNCHANGED exitVars
    /\ UNCHANGED <<hostClosed, sent, shellVars, hostOut, eofSeen, ptyEofSeen,
                   winVars>>

\* os.waitpid(pid, os.WNOHANG) and the loop test that follows it
CheckChild ==
    /\ pc = "wait"
    /\ IF reapable = "reaped"
       THEN LoopEnds                                  \* ChildProcessError: break
       ELSE IF reapable = "zombie"
       THEN Leave("sys.exit", childExit)               \* wpid == pid
       ELSE IF running
       THEN pc' = "select" /\ UNCHANGED exitVars
       ELSE LoopEnds                                   \* while running
    /\ UNCHANGED <<rlist, running, hostVars, shellVars, ioVars,
                   winVars>>

(* ------------------------------------------------------------------ *)
(* The host and the shell                                               *)
(* ------------------------------------------------------------------ *)
HostSend(chunks) ==
    /\ pc # "exited" /\ ~hostClosed /\ stdinPipe = <<>> /\ sent < MaxChunks
    /\ \E c \in chunks : stdinPipe' = <<c>>
    /\ sent' = sent + 1
    /\ UNCHANGED <<pc, rlist, running, hostClosed, shellVars, ioVars, exitVars,
                   winVars>>

HostClose ==
    /\ pc # "exited" /\ ~hostClosed
    /\ hostClosed' = TRUE
    /\ UNCHANGED <<pc, rlist, running, stdinPipe, sent, shellVars, ioVars, exitVars,
                   winVars>>

ShellWrite ==
    /\ pc # "exited" /\ childExit = -1 /\ produced < MaxOutput
    /\ produced' = produced + 1
    /\ ptyOutBuf' = Append(ptyOutBuf, produced + 1)
    /\ UNCHANGED <<pc, rlist, running, hostVars, childExit, hup, reapable, ioVars,
                   exitVars,
                   winVars>>

ShellExit ==
    /\ pc # "exited" /\ childExit = -1
    /\ \E n \in ExitCodes : childExit' = n
    /\ UNCHANGED <<pc, rlist, running, hostVars, ptyOutBuf, produced, hup, reapable,
                   ioVars, exitVars,
                   winVars>>

\* the last descriptor of the slave side is closed
PtyHangup ==
    /\ pc # "exited" /\ childExit # -1 /\ ~hup
    /\ hup' = TRUE
    /\ UNCHANGED <<pc, rlist, running, hostVars, ptyOutBuf, produced, childExit,
                   reapable, ioVars, exitVars,
                   winVars>>

\* the exited shell becomes a zombie (or, SIGCHLD ignored, is reaped by the kernel)
ChildReapable ==
    /\ pc # "exited" /\ childExit # -1 /\ reapable = "no"
    /\ reapable' \in {"zombie", "reaped"}
    /\ UNCHANGED <<pc, rlist, running, hostVars, ptyOutBuf, produced, childExit, hup,
                   ioVars, exitVars,
                   winVars>>

Next ==
    \/ Select
    \/ SelectError
    \/ ServePtyData
    \/ ServePtyEnd
    \/ ServeStdinEof
    \/ \E wrote \in BOOLEAN : ServeStdinChunk(wrote)
    \/ CheckChild
    \/ HostSend(RelayChunks)
    \/ HostClose
    \/ ShellWrite
    \/ ShellExit
    \/ PtyHangup
    \/ ChildReapable

Spec == Init /\ [][Next]_vars

(* ------------------------------------------------------------------ *)
(* The codec specification: one chunk of CodecChunks through the relay  *)
(* ------------------------------------------------------------------ *)
CodecInit ==
    /\ MainSetup(CodecChunks)
    /\ stdinPipe # <<>>
    /\ WinSetup({<<>>})

CodecNext ==
    \/ Select
    \/ ServeStdinChunk(TRUE)
    \/ CheckChild

SpecCodec == CodecInit /\ [][CodecNext]_vars

(* ------------------------------------------------------------------ *)
(* The Windows relay, src/terminal_win.py                               *)
(* ------------------------------------------------------------------ *)
\* bytes of b']RESIZE', the 7 bytes read after ESC
PEEK == <<93, 82, 69, 83, 73, 90, 69>>
\* sys.stdin.buffer.read(7)
PEEK_SIZE == 7
\* U+FFFD, what decode(errors='replace') puts for a byte that is not text
REPLACEMENT == 65533
\* ESC [ I and ESC [ O
FOCUS_IN == <<27, 91, 73>>
FOCUS_OUT == <<27, 91, 79>>
\* bytes that are not valid UTF-8 anywhere
BAD_BYTE == 255

\* streams the host writes to the Windows relay
WinInputs ==
    { <<CH_a>>,
      Directive(N100, N40),
      <<CH_a>> \o Directive(N7, N9) \o <<CH_a>>,
      <<ESC, 91, 65, CH_a, CH_a, CH_a, CH_a, CH_a, CH_a>>,
      <<ESC>> \o Directive(N100, N40),
      Directive(<<CH_a>>, N40) \o <<CH_a>>,
      Directive(N0, N40) \o <<CH_a>>,
      <<ESC>> \o PEEK \o <<BAD_BYTE, BEL, CH_a>>,
      INTRO \o N7,
      <<ESC, CH_a>> }

\* chunks the shell writes to the ConPTY
WinOutputs ==
    { <<CH_a>>,
      FOCUS_IN,
      <<CH_a>> \o FOCUS_OUT \o <<CH_a>>,
      <<ESC>> \o FOCUS_IN \o <<91, 79>>,
      Directive(N100, N40) \o <<CH_a>> }

\* bytes.decode('utf-8', errors='replace'), for ASCII and BAD_BYTE
DecodeReplace(bs) == [i \in 1..Len(bs) |-> IF bs[i] < 128 THEN bs[i] ELSE REPLACEMENT]

\* str.strip(';')
RECURSIVE StripSemi(_)
StripSemi(t) ==
    IF t = <<>> THEN t
    ELSE IF Head(t) = SEMI THEN StripSemi(Tail(t))
    ELSE IF t[Len(t)] = SEMI THEN StripSemi(Slice(t, 1, Len(t) - 1))
    ELSE t

\* pattern.sub(b'', data) for a fixed byte string, from position i on
RECURSIVE SubFixed(_, _, _)
SubFixed(pat, d, i) ==
    IF i > Len(d) THEN <<>>
    ELSE IF i + Len(pat) - 1 <= Len(d) /\ SubSeq(d, i, i + Len(pat) - 1) = pat
    THEN SubFixed(pat, d, i + Len(pat))
    ELSE <<d[i]>> \o SubFixed(pat, d, i + 1)

\* byte b is letter l in either case (re.IGNORECASE)
SameLetter(b, l) == b = l \/ (l \in 65..90 /\ b = l + 32)

\* RESIZE_RE matches at d[i..e]; 0 when it does not match at i
ResizeReEnd(d, i) ==
    LET ends == {e \in (i + INTRO_SKIP + 3)..Len(d) :
                    /\ \A k \in 1..INTRO_SKIP : SameLetter(d[i + k - 1], INTRO[k])
                    /\ d[e] = BEL
                    /\ DigitsPair(d, i + INTRO_SKIP, e - 1)}
    IN IF ends = {} THEN 0 ELSE CHOOSE e \in ends : TRUE

\* RESIZE_RE.sub(b'', data), from position i on
RECURSIVE SubResize(_, _)
SubResize(d, i) ==
    IF i > Len(d) THEN <<>>
    ELSE IF ResizeReEnd(d, i) # 0 THEN SubResize(d, ResizeReEnd(d, i) + 1)
    ELSE <<d[i]>> \o SubResize(d, i + 1)

\* the three substitutions of read_output
FilterOutput(data) ==
    SubFixed(FOCUS_OUT, SubFixed(FOCUS_IN, SubResize(data, 1), 1), 1)

WinAlive == wChildExit = -1

\* exit code of sys.exit(0) after the loop
WIN_EXIT == 0
\* exit code of sys.exit(1) in except Exception
WIN_ERROR_EXIT == 1

\* running = False; sys.exit(0): SystemExit passes except Exception
WinLeave ==
    /\ wrunning' = FALSE
    /\ wpc' = "exited"
    /\ wExit' = WIN_EXIT

\* pty = PTY(cols, rows); pty.spawn(shell); running = True; output_thread.start()
WSpawn ==
    /\ wpc = "spawn"
    /\ wpc' = "test"
    /\ rpc' = "test"
    /\ wrunning' = TRUE
    /\ UNCHANGED <<wPending, wIn, wHostGone, resize_data, wSize, wPtyLog, wPtyOut,
                   wProduced, wOut, wChildExit, wReadErr, wSpin, wExit, posixVars>>

\* PTY(cols, rows) or spawn raises: except Exception: sys.exit(1)
WSpawnFail ==
    /\ wpc = "spawn"
    /\ wpc' = "exited"
    /\ wExit' = WIN_ERROR_EXIT
    /\ UNCHANGED <<rpc, wrunning, wPending, wIn, wHostGone, resize_data, wSize,
                   wPtyLog, wPtyOut, wProduced, wOut, wChildExit, wReadErr, wSpin,
                   posixVars>>

\* while running and pty.isalive()
WLoopTest ==
    /\ wpc = "test"
    /\ IF wrunning /\ WinAlive
       THEN wpc' = "read1" /\ UNCHANGED <<wrunning, wExit>>
       ELSE WinLeave
    /\ UNCHANGED <<rpc, wPending, wIn, wHostGone, resize_data, wSize, wPtyLog,
                   wPtyOut, wProduced, wOut, wChildExit, wReadErr, wSpin, posixVars>>

\* pty.write(text): the log grows, or (ok false) the call raises and the loop breaks
WinWrite(bs, ok) ==
    IF ok
    THEN /\ wPtyLog' = Append(wPtyLog, [op |-> "write", data |-> DecodeReplace(bs)])
         /\ wpc' = "test"
         /\ UNCHANGED <<wrunning, wExit>>
    ELSE /\ WinLeave
         /\ UNCHANGED wPtyLog

\* data = sys.stdin.buffer.read(1) at the top of the loop
WRead1(ok) ==
    /\ wpc = "read1"
    /\ wIn # <<>> \/ wHostGone
    /\ ok \/ (~WinAlive /\ wIn # <<>> /\ Head(wIn) # ESC)
    /\ IF wIn = <<>>
       THEN WinLeave /\ UNCHANGED <<wIn, wPtyLog>>          \* if not data: break
       ELSE /\ wIn' = Tail(wIn)
            /\ IF Head(wIn) = ESC
               THEN wpc' = "peek" /\ UNCHANGED <<wrunning, wExit, wPtyLog>>
               ELSE WinWrite(<<Head(wIn)>>, ok)
    /\ UNCHANGED <<rpc, wPending, wHostGone, resize_data, wSize, wPtyOut, wProduced,
                   wOut, wChildExit, wReadErr, wSpin, posixVars>>

\* what read(7) returns: 7 bytes, fewer only at EOF
PeekBytes == Slice(wIn, 1, IF Len(wIn) < PEEK_SIZE THEN Len(wIn) ELSE PEEK_SIZE)

\* peek = sys.stdin.buffer.read(7), and the branch on peek == b']RESIZE'
WPeek(ok) ==
    /\ wpc = "peek"
    /\ Len(wIn) >= PEEK_SIZE \/ wHostGone
    /\ ok \/ (~WinAlive /\ PeekBytes # PEEK)
    /\ wIn' = Slice(wIn, Len(PeekBytes) + 1, Len(wIn))
    /\ IF PeekBytes = PEEK
       THEN /\ wpc' = "payload"
            /\ resize_data' = <<>>
            /\ UNCHANGED <<wrunning, wExit, wPtyLog>>
       ELSE /\ WinWrite(<<ESC>> \o PeekBytes, ok)
            /\ UNCHANGED resize_data
    /\ UNCHANGED <<rpc, wPending, wHostGone, wSize, wPtyOut, wProduced, wOut,
                   wChildExit, wReadErr, wSpin, posixVars>>

\* pty.set_size raises for these values
WinPtyRejects(c, r) == c < 1 \/ r < 1

\* lines 74-80 after the terminator: "set", "skip" (no resize), "raise" (break)
ParseResize(data) ==
    IF ~Decodable(data) THEN [act |-> "raise", size |-> <<>>]
    ELSE LET parts == Split(StripSemi(data), SEMI)
         IN IF Len(parts) # 2 \/ ~IsInt(parts[1]) \/ ~IsInt(parts[2])
            THEN [act |-> "skip", size |-> <<>>]
            ELSE IF WinPtyRejects(IntOf(parts[1]), IntOf(parts[2]))
            THEN [act |-> "raise", size |-> <<>>]
            ELSE [act |-> "set", size |-> <<IntOf(parts[1]), IntOf(parts[2])>>]

\* c = sys.stdin.buffer.read(1) inside while True
WPayload ==
    /\ wpc = "payload"
    /\ wIn # <<>> \/ wHostGone
    /\ IF wIn = <<>>
       THEN /\ wSpin' = TRUE                 \* c == b'': resize_data += c, again
            /\ UNCHANGED <<wpc, wrunning, wExit, wIn, resize_data, wSize, wPtyLog>>
       ELSE /\ wIn' = Tail(wIn)
            /\ UNCHANGED wSpin
            /\ IF Head(wIn) # BEL
               THEN /\ resize_data' = Append(resize_data, Head(wIn))
                    /\ UNCHANGED <<wpc, wrunning, wExit, wSize, wPtyLog>>
               ELSE LET res == ParseResize(resize_data)
                    IN /\ UNCHANGED resize_data
                       /\ IF res.act = "raise"
                          THEN WinLeave /\ UNCHANGED <<wSize, wPtyLog>>
                          ELSE /\ wpc' = "test"
                               /\ UNCHANGED <<wrunning, wExit>>
                               /\ IF res.act = "set"
                                  THEN /\ wSize' = res.size
                                       /\ wPtyLog' = Append(wPtyLog,
                                             [op |-> "resize", data |-> res.size])
                                  ELSE UNCHANGED <<wSize, wPtyLog>>
    /\ UNCHANGED <<rpc, wPending, wHostGone, wPtyOut, wProduced, wOut, wChildExit,
                   wReadErr, posixVars>>

\* read_output: while running and pty.isalive(), and running = False after it
RTest ==
    /\ wpc \notin {"spawn", "exited"}
    /\ rpc = "test"
    /\ IF wrunning /\ WinAlive
       THEN rpc' = "read" /\ UNCHANGED wrunning
       ELSE rpc' = "done" /\ wrunning' = FALSE
    /\ UNCHANGED <<wpc, wPending, wIn, wHostGone, resize_data, wSize, wPtyLog,
                   wPtyOut, wProduced, wOut, wChildExit, wReadErr, wSpin, wExit,
                   posixVars>>

\* a reader that also answers the shell: it writes to the PTY what it has read
RRead_Echo(raised) ==
    /\ wpc \notin {"spawn", "exited"}
    /\ rpc = "read"
    /\ rpc' = "test"
    /\ IF wPtyOut = <<>>
       THEN /\ raised => ~WinAlive
            /\ wReadErr' = (wReadErr \/ raised)
            /\ UNCHANGED <<wPtyOut, wOut, wPtyLog>>
       ELSE /\ raised => (wHostGone /\ FilterOutput(Head(wPtyOut)) # <<>>)
            /\ wPtyOut' = Tail(wPtyOut)
            /\ wReadErr' = (wReadErr \/ raised)
            /\ wOut' = IF raised THEN wOut ELSE wOut \o FilterOutput(Head(wPtyOut))
            /\ wPtyLog' = Append(wPtyLog, [op |-> "write", data |-> Head(wPtyOut)])
    /\ UNCHANGED <<wpc, wrunning, wPending, wIn, wHostGone, resize_data, wSize,
                   wProduced, wChildExit, wSpin, wExit, posixVars>>

\* read_output: data = pty.read() and what follows; raised: an exception is caught
RRead(raised) ==
    /\ wpc \notin {"spawn", "exited"}
    /\ rpc = "read"
    /\ rpc' = "test"
    /\ IF wPtyOut = <<>>
       THEN /\ raised => ~WinAlive           \* the read raises once the shell is gone
            /\ wReadErr' = (wReadErr \/ raised)
            /\ UNCHANGED <<wPtyOut, wOut>>
       ELSE /\ raised => (wHostGone /\ FilterOutput(Head(wPtyOut)) # <<>>)
            /\ wPtyOut' = Tail(wPtyOut)
            /\ wReadErr' = (wReadErr \/ raised)
            /\ wOut' = IF raised THEN wOut ELSE wOut \o FilterOutput(Head(wPtyOut))
    /\ UNCHANGED <<wpc, wrunning, wPending, wIn, wHostGone, resize_data, wSize,
                   wPtyLog, wProduced, wChildExit, wSpin, wExit, posixVars>>

WinUp == wpc \notin {"spawn", "exited"}

WHostFeed ==
    /\ WinUp /\ ~wHostGone /\ wPending # <<>>
    /\ wIn' = Append(wIn, Head(wPending))
    /\ wPending' = Tail(wPending)
    /\ UNCHANGED <<wpc, rpc, wrunning, wHostGone, resize_data, wSize, wPtyLog,
                   wPtyOut, wProduced, wOut, wChildExit, wReadErr, wSpin, wExit,
                   posixVars>>

WHostClose ==
    /\ WinUp /\ ~wHostGone
    /\ wHostGone' = TRUE
    /\ wPending' = <<>>
    /\ UNCHANGED <<wpc, rpc, wrunning, wIn, resize_data, wSize, wPtyLog, wPtyOut,
                   wProduced, wOut, wChildExit, wReadErr, wSpin, wExit, posixVars>>

WShellWrite ==
    /\ WinUp /\ WinAlive /\ wProduced < MaxWinOutput
    /\ \E o \in WinOutputs : wPtyOut' = Append(wPtyOut, o)
    /\ wProduced' = wProduced + 1
    /\ UNCHANGED <<wpc, rpc, wrunning, wPending, wIn, wHostGone, resize_data, wSize,
                   wPtyLog, wOut, wChildExit, wReadErr, wSpin, wExit, posixVars>>

WShellExit ==
    /\ WinUp /\ WinAlive
    /\ \E n \in ExitCodes : wChildExit' = n
    /\ UNCHANGED <<wpc, rpc, wrunning, wPending, wIn, wHostGone, resize_data, wSize,
                   wPtyLog, wPtyOut, wProduced, wOut, wReadErr, wSpin, wExit,
                   posixVars>>

WinInit ==
    /\ MainSetup({})
    /\ WinSetup(WinInputs)

WinNext ==
    \/ WSpawn
    \/ WSpawnFail
    \/ WLoopTest
    \/ \E ok \in BOOLEAN : WRead1(ok)
    \/ \E ok \in BOOLEAN : WPeek(ok)
    \/ WPayload
    \/ RTest
    \/ \E raised \in BOOLEAN : RRead(raised)
    \/ WHostFeed
    \/ WHostClose
    \/ WShellWrite
    \/ WShellExit

SpecWin == WinInit /\ [][WinNext]_vars

(* ------------------------------------------------------------------ *)
(* Reading a chunk as the wire format defines it                        *)
(* ------------------------------------------------------------------ *)
\* ESC ] RESIZE ; <digits> ; <digits> BEL occupies d[s..e]
WellFormedAt(d, s, e) ==
    /\ 1 <= s /\ s + INTRO_SKIP < e /\ e <= Len(d)
    /\ SubSeq(d, s, s + INTRO_SKIP - 1) = INTRO
    /\ d[e] = BEL
    /\ DigitsPair(d, s + INTRO_SKIP, e - 1)

\* the well-formed directives of a chunk, as <<start, end>>
WellFormedIn(d) ==
    {se \in (1..Len(d)) \X (1..Len(d)) : WellFormedAt(d, se[1], se[2])}

\* <<columns, rows>> of the well-formed directive at d[s..e]
FieldsAt(d, s, e) ==
    LET m == CHOOSE k \in (s + INTRO_SKIP)..(e - 1) : d[k] = SEMI
    IN <<DigitsValue(Slice(d, s + INTRO_SKIP, m - 1)), DigitsValue(Slice(d, m + 1, e - 1))>>

\* every introducer of the chunk begins a well-formed directive
OnlyWellFormed(d) ==
    \A s \in Occurrences(INTRO, d, 1) : \E se \in WellFormedIn(d) : se[1] = s

\* the chunk from position i on, without its well-formed directives
RECURSIVE StripFrom(_, _)
StripFrom(d, i) ==
    IF i > Len(d) THEN <<>>
    ELSE IF \E se \in WellFormedIn(d) : se[1] = i
    THEN StripFrom(d, (CHOOSE se \in WellFormedIn(d) : se[1] = i)[2] + 1)
    ELSE <<d[i]>> \o StripFrom(d, i + 1)

\* the <<columns, rows>> of the well-formed directives from position i on, in order
RECURSIVE ResizesFrom(_, _)
ResizesFrom(d, i) ==
    IF i > Len(d) THEN <<>>
    ELSE IF \E se \in WellFormedIn(d) : se[1] = i
    THEN LET se == CHOOSE x \in WellFormedIn(d) : x[1] = i
         IN <<FieldsAt(d, se[1], se[2])>> \o ResizesFrom(d, se[2] + 1)
    ELSE ResizesFrom(d, i + 1)

\* the chunk is one directive whose fields parse as integers: <<columns, rows>>
IsIntDirective(d) ==
    /\ Len(d) > INTRO_SKIP + 1
    /\ SubSeq(d, 1, INTRO_SKIP) = INTRO
    /\ d[Len(d)] = BEL
    /\ LET parts == Split(Slice(d, INTRO_SKIP + 1, Len(d) - 1), SEMI)
       IN Len(parts) = 2 /\ IsInt(parts[1]) /\ IsInt(parts[2])

IntDirectiveFields(d) ==
    LET parts == Split(Slice(d, INTRO_SKIP + 1, Len(d) - 1), SEMI)
    IN <<IntOf(parts[1]), IntOf(parts[2])>>

\* a positive value of the 16-bit field
InRange(v) == 1 <= v /\ v <= USHORT_MAX

\* the first introducer of the chunk begins a malformed directive: no BEL after
\* it, or a payload that is not two fields, or a field that is not a number
MalformedFirst(d) ==
    LET s == IndexOf(INTRO, d, 1)
        ends == {e \in s..Len(d) : d[e] = BEL}
    IN /\ s # 0
       /\ \/ ends = {}
          \/ LET e == CHOOSE x \in ends : \A y \in ends : x <= y
                 parts == Split(Slice(d, s + INTRO_SKIP, e - 1), SEMI)
             IN \/ Len(parts) # 2
                \/ \E i \in 1..Len(parts) : ~IsInt(parts[i])

\* the bytes written to the PTY, in order
RECURSIVE Written(_)
Written(log) ==
    IF log = <<>> THEN <<>>
    ELSE (IF Head(log).op = "write" THEN Head(log).data ELSE <<>>) \o Written(Tail(log))

\* the resizes applied to the PTY, in order
RECURSIVE Resized(_)
Resized(log) ==
    IF log = <<>> THEN <<>>
    ELSE (IF Head(log).op = "resize" THEN <<Head(log).data>> ELSE <<>>)
         \o Resized(Tail(log))

\* the chunk of the last host-input step was scanned and written without an error
LastServed == last.outcome \in {"done", "ValueError"} /\ last.wrote

(* ------------------------------------------------------------------ *)
(* Claims                                                               *)
(* ------------------------------------------------------------------ *)

\* C1: when the shell has exited with code N and the relay saw the PTY end
\* (EOF or OSError), the helper exits with code N, whether or not waitpid
\* already reports the shell in that iteration.
C1_ExitCodeRelayed ==
    (pc = "exited" /\ ptyEofSeen /\ childExit \in 0..255 /\ reapable # "reaped")
        => exitCode = childExit

\* C2: every well-formed directive lying in one chunk is kept from the PTY and
\* its resize is applied, whatever precedes it in the chunk.
C2_DirectiveNeverForwarded ==
    LastServed =>
        \A se \in WellFormedIn(last.chunk) :
            /\ ~Contains(SubSeq(last.chunk, se[1], se[2]), Written(ptyLog))
            /\ \E i \in 1..Len(last.applied) :
                   last.applied[i] = FieldsAt(last.chunk, se[1], se[2])

\* C3: for a chunk in which every introducer begins a well-formed directive,
\* the bytes written to the PTY are the chunk without those directives, and
\* the resizes applied are those of the directives of the original chunk.
C3_RoundTrip ==
    (LastServed /\ OnlyWellFormed(last.chunk)) =>
        /\ Written(ptyLog) = StripFrom(last.chunk, 1)
        /\ Resized(ptyLog) = ResizesFrom(last.chunk, 1)

\* the window size the resizes of the PTY log leave
SizeOfLog ==
    LET rs == Resized(ptyLog)
    IN IF rs = <<>> THEN [ws_row |-> InitRows, ws_col |-> InitCols]
       ELSE [ws_row |-> rs[Len(rs)][2], ws_col |-> rs[Len(rs)][1]]

\* C4: the window size is that of the last applied directive, or the argv
\* size; a first chunk that is one in-range directive sets exactly its
\* (columns, rows); the size changes only in a step that applies a directive.
C4_SizeIsLastApplied ==
    /\ [](/\ winsize = SizeOfLog
          /\ (Len(consumed) = 1 /\ IsIntDirective(consumed[1])
                /\ InRange(IntDirectiveFields(consumed[1])[1])
                /\ InRange(IntDirectiveFields(consumed[1])[2]))
              => /\ winsize.ws_col = IntDirectiveFields(consumed[1])[1]
                 /\ winsize.ws_row = IntDirectiveFields(consumed[1])[2])
    /\ [][winsize' # winsize =>
            /\ Len(consumed') = Len(consumed) + 1
            /\ last'.applied # <<>>
            /\ Len(Resized(ptyLog')) > Len(Resized(ptyLog))]_vars

C4_Witness ==
    /\ Len(consumed) = 2
    /\ Len(Resized(ptyLog)) >= 3
    /\ winsize = [ws_row |-> 9, ws_col |-> 7]

\* the last chunk was one directive with an out-of-range field
OutOfRangeLast ==
    /\ IsIntDirective(last.chunk)
    /\ \/ ~InRange(IntDirectiveFields(last.chunk)[1])
       \/ ~InRange(IntDirectiveFields(last.chunk)[2])

\* C5: a directive with an out-of-range field is a no-op: the size is
\* unchanged and the helper does not end with an error.
C5_OutOfRangeIgnored ==
    OutOfRangeLast => (winsize = last.before /\ exitVia # "traceback")

\* C6: a chunk whose first introducer begins a malformed directive leaves the
\* size unchanged, is written whole to the PTY, and the loop goes on; and
\* whenever the scan stops at a directive it cannot parse, the data from that
\* directive on is written to the PTY, no resize is made for it, and the loop
\* goes on.
C6_MalformedLeftInPlace ==
    /\ (last.outcome # "none" /\ MalformedFirst(last.chunk)) =>
           /\ last.outcome = "ValueError"
           /\ winsize = last.before
           /\ ptyLog = <<[op |-> "write", data |-> last.chunk]>>
           /\ running
           /\ pc # "exited"
    /\ last.outcome = "ValueError" =>
           /\ Contains(INTRO, last.data)
           /\ Written(ptyLog) = last.data
           /\ Len(Resized(ptyLog)) = Len(last.applied)
           /\ winsize = IF last.applied = <<>> THEN last.before ELSE SizeOfLog
           /\ running
           /\ pc # "exited"

C6_Witness ==
    /\ last.chunk = INTRO \o <<CH_a, SEMI>> \o N40 \o <<BEL>>
    /\ Written(ptyLog) = last.chunk
    /\ pc = "select"

\* C7: when the loop ends without an observed child exit, the helper's exit
\* code is the fallback 1.
C7_FallbackCode ==
    (pc = "exited" /\ exitVia = "return") => exitCode = 1

\* C8: after host input reached EOF the loop starts no further iteration: the
\* flag is down, the child-status check is the only step left, the helper
\* ends by return or sys.exit, and a shell still running is left running.
C8_HostEofEndsLoop ==
    /\ [](eofSeen =>
             /\ ~running
             /\ pc \in {"wait", "exited"}
             /\ exitVia \in {"none", "return", "sys.exit"}
             /\ (pc = "exited" /\ reapable = "no") => exitVia = "return")
    /\ [][(eofSeen' /\ pc' # pc) =>
              /\ pc' \in {"wait", "exited"}
              /\ UNCHANGED <<childExit, hup, reapable, ptyOutBuf>>]_vars

C8_Witness ==
    eofSeen /\ pc = "exited" /\ childExit = -1 /\ exitVia = "return"

\* C9: when the child-status check makes the helper exit, every byte the
\* shell wrote has been written to host output, in order.
C9_OutputDrained ==
    (pc = "exited" /\ exitVia = "sys.exit" /\ ~hostClosed)
        => hostOut = [i \in 1..produced |-> i]

\* C10: when the shell has exited with code N, the Windows helper exits with
\* code N; it exits with the fallback 1 only when there is no shell exit code
\* (or the shell's own code is 1).
C10_WinExitCodeRelayed ==
    wpc = "exited" =>
        /\ wChildExit \in 0..255 => wExit = wChildExit
        /\ wExit = WIN_ERROR_EXIT => wChildExit \in {-1, 1}

(* ------------------------------------------------------------------ *)
(* Claims about the Windows relay                                       *)
(* ------------------------------------------------------------------ *)
\* the steps of the main thread inside its loop
WMain ==
    \/ WLoopTest
    \/ \E ok \in BOOLEAN : WRead1(ok)
    \/ \E ok \in BOOLEAN : WPeek(ok)
    \/ WPayload

\* C11: once host input is closed and every byte of it has been read, the
\* main thread has left its loop or can still take a step that changes the
\* state (so that it goes on towards the end of the loop), wherever in the
\* input stream the EOF fell.
C11_EofEndsMainLoop ==
    (wHostGone /\ wIn = <<>> /\ wpc # "exited") => ENABLED <<WMain>>_winVars

\* the steps of the reader thread
WReader ==
    \/ RTest
    \/ \E raised \in BOOLEAN : RRead(raised)

\* C12: once the stop flag is down or the shell is gone, the main thread can
\* take its next step towards the end of the loop on what host input has
\* already delivered, without a further byte; and once the main thread has
\* set the flag and left, the reader thread takes no further step.
C12_StopObserved ==
    /\ (WinUp /\ (~wrunning \/ ~WinAlive)) => ENABLED <<WMain>>_winVars
    /\ wpc = "exited" => ~ENABLED <<WReader>>_winVars

\* C13: the bytes passed to pty.write, taken together in order, contain no
\* well-formed resize directive, at whatever offset of host input the
\* directive started.
C13_WinDirectiveNeverForwarded ==
    WellFormedIn(Written(wPtyLog)) = {}

\* the payload collected before the BEL does not lead to a resize: a field
\* that is not a number, a wrong number of fields, bytes that are not valid
\* text, or values the PTY rejects
WinMalformed(data) == ParseResize(data).act # "set"

\* the main thread reads the BEL that ends a directive
ReadsTerminator ==
    /\ wpc = "payload"
    /\ wIn # <<>> /\ Head(wIn) = BEL
    /\ wIn' = Tail(wIn)

\* C14: when the main thread reads the BEL that ends a malformed directive,
\* the window size is unchanged, nothing is written to the PTY, the stop flag
\* stays up and the main thread goes back to the top of its loop for the
\* following input bytes.
C14_WinMalformedRecovered ==
    [][(ReadsTerminator /\ WinMalformed(resize_data)) =>
           /\ wSize' = wSize
           /\ wPtyLog' = wPtyLog
           /\ wrunning' = wrunning
           /\ wpc' = "test"]_vars

\* C15: after a PTY read or a host-output write has raised in the reader
\* thread, the reader never starts another PTY read: the failed operation
\* is not retried and the reader loop does not go on.
C15_ReaderErrorEndsLoop ==
    wReadErr => rpc # "read"

\* C16: every step that writes to the PTY or resizes it is a step of the main
\* thread, every step that takes PTY output or writes host output is a step
\* of the reader thread, and neither thread's step changes what the other
\* thread owns: the stop flag is the only variable both threads assign.
C16_OneOwnerPerDirection ==
    [][/\ (wPtyLog' # wPtyLog \/ wSize' # wSize) => WMain
       /\ (wOut' # wOut \/ Len(wPtyOut') < Len(wPtyOut)) => WReader
       /\ WMain => UNCHANGED <<rpc, wOut, wPtyOut, wReadErr>>
       /\ WReader => UNCHANGED <<wpc, wIn, resize_data, wSize, wPtyLog, wExit>>]_vars

\* both threads have acted: the main thread has written and resized, the
\* reader thread has passed shell output on
C16_Witness ==
    /\ wOut # <<>>
    /\ \E i \in 1..Len(wPtyLog) : wPtyLog[i].op = "resize"
    /\ \E i \in 1..Len(wPtyLog) : wPtyLog[i].op = "write"

(* ------------------------------------------------------------------ *)
(* Further claims about the POSIX relay                                 *)
(* ------------------------------------------------------------------ *)
\* C17: stdin is non-blocking while the relay loop runs, and whenever the
\* helper has left the loop (by the end of the loop or a break, by sys.exit
\* with the child's code, or by an exception) stdin has its original flags.
C17_FlagsRestored ==
    /\ pc # "exited" => stdin_flags = "nonblock"
    /\ pc = "exited" => stdin_flags = "orig"

\* left by an exception that propagates out of the loop
C17_Witness ==
    pc = "exited" /\ exitVia = "traceback" /\ stdin_flags = "orig"

\* C19: the step that serves one host-input chunk only appends to the PTY
\* log (so resizes and writes keep the order of the chunks); what it appends
\* is the resizes of the directives the scan applied, in the order of the
\* scan, and every one of them comes before the write of the chunk's
\* remaining bytes.
C19_ResizeBeforeBytes ==
    [][consumed' # consumed =>
           LET new == Slice(ptyLog', Len(ptyLog) + 1, Len(ptyLog'))
           IN /\ Len(ptyLog') >= Len(ptyLog)
              /\ SubSeq(ptyLog', 1, Len(ptyLog)) = ptyLog
              /\ Resized(new) = last'.applied
              /\ \A i, j \in 1..Len(new) :
                     (new[i].op = "write" /\ new[j].op = "resize") => j < i]_vars

\* a chunk with a byte in front of a directive was served: its resize is in
\* the log before the write that carries that byte
C19_Witness ==
    /\ LastServed
    /\ ScanStart(last.chunk) > 1
    /\ last.applied # <<>>
    /\ last.data # <<>>
    /\ Len(ptyLog) >= 2
    /\ ptyLog[Len(ptyLog)].op = "write"
    /\ ptyLog[Len(ptyLog) - 1].op = "resize"

(* ------------------------------------------------------------------ *)
(* The older POSIX relay, src/terminal_pty.py                           *)
(* Same state as the POSIX relay; the loop is `while True` and the flag *)
(* running is not used. select and its error branch are the same code.  *)
(* ------------------------------------------------------------------ *)
\* chunks the host sends to the older relay
OldChunks ==
    { <<CH_a>>,
      Directive(N100, N40) \o <<CH_a>>,
      <<CH_a>> \o Directive(N7, N9),
      Directive(N70000, N40),
      Directive(<<CH_a>>, N40) }

\* data.startswith(b'\x1b]RESIZE;')
StartsWithIntro(data) == Len(data) >= Len(INTRO) /\ SubSeq(data, 1, Len(INTRO)) = INTRO

\* lines 67-75: one directive at the start of the chunk, cut out with what precedes
\* its BEL; outcome "done", "ValueError" (pass) or "struct.error" (propagates)
OldScan(data) ==
    IF ~StartsWithIntro(data)
    THEN [data |-> data, applied |-> <<>>, outcome |-> "done"]
    ELSE LET end == IndexOf(<<BEL>>, data, 1)
             payload == Slice(data, INTRO_SKIP + 1, end - 1)
             parts == Split(payload, SEMI)
         IN IF \/ end = 0
               \/ ~Decodable(payload)
               \/ Len(parts) # 2
               \/ ~IsInt(parts[1])
               \/ ~IsInt(parts[2])
            THEN [data |-> data, applied |-> <<>>, outcome |-> "ValueError"]
            ELSE LET c == IntOf(parts[1])
                     r == IntOf(parts[2])
                 IN IF ~PackOK(c) \/ ~PackOK(r)
                    THEN [data |-> data, applied |-> <<>>, outcome |-> "struct.error"]
                    ELSE [data |-> Slice(data, end + 1, Len(data)),
                          applied |-> <<<<c, r>>>>, outcome |-> "done"]

\* ready_fd == fd: the read returns b'' or raises OSError, or the write to
\* stdout raises OSError: break, which leaves the for loop only
OldServePtyEnd ==
    /\ pc = "serve" /\ rlist # <<>> /\ Head(rlist) = "pty"
    /\ \/ ptyOutBuf = <<>> /\ ptyEofSeen' = TRUE /\ UNCHANGED ptyOutBuf
       \/ /\ ptyOutBuf # <<>> /\ hostClosed
          /\ ptyOutBuf' = Slice(ptyOutBuf, Len(ReadPty) + 1, Len(ptyOutBuf))
          /\ UNCHANGED ptyEofSeen
    /\ pc' = "wait"
    /\ UNCHANGED <<rlist, running, hostVars, produced, childExit, hup, reapable,
                   hostOut, ptyLog, consumed, last, winsize, eofSeen, exitVars,
                   winVars>>

\* ready_fd == stdin_fd, the read returns b'': `if data:` is false, nothing is done
OldServeStdinEof ==
    /\ pc = "serve" /\ rlist # <<>> /\ Head(rlist) = "stdin"
    /\ stdinPipe = <<>>
    /\ eofSeen' = TRUE
    /\ rlist' = Tail(rlist)
    /\ pc' = NextReady
    /\ UNCHANGED <<running, hostVars, shellVars, hostOut, ptyLog, consumed, last,
                   winsize, ptyEofSeen, exitVars, winVars>>

\* ready_fd == stdin_fd, a chunk is read; wrote: os.write(fd, data) succeeded,
\* otherwise its OSError is passed over
OldServeStdinChunk(wrote) ==
    /\ pc = "serve" /\ rlist # <<>> /\ Head(rlist) = "stdin"
    /\ stdinPipe # <<>>
    /\ wrote \/ hup
    /\ LET chunk == Head(stdinPipe)
           res == OldScan(chunk)
           writes == IF res.data # <<>> /\ wrote /\ res.outcome # "struct.error"
                     THEN <<[op |-> "write", data |-> res.data]>> ELSE <<>>
       IN /\ wrote \/ (res.data # <<>> /\ res.outcome # "struct.error")
          /\ stdinPipe' = Tail(stdinPipe)
          /\ consumed' = Append(consumed, chunk)
          /\ winsize' = SizeAfter(winsize, res.applied)
          /\ ptyLog' = ptyLog \o ResizeEvents(res.applied) \o writes
          /\ last' = [chunk |-> chunk, outcome |-> res.outcome, data |-> res.data,
                      applied |-> res.applied, wrote |-> wrote, before |-> winsize]
          /\ IF res.outcome = "struct.error"
             THEN /\ Leave("traceback", TracebackCode)
                  /\ UNCHANGED rlist
             ELSE /\ rlist' = Tail(rlist)
                  /\ pc' = NextReady
                  /\ UNCHANGED exitVars
    /\ UNCHANGED <<running, hostClosed, sent, shellVars, hostOut, eofSeen, ptyEofSeen,
                   winVars>>

\* os.waitpid(pid, os.WNOHANG), and back to the top of `while True`
OldCheckChild ==
    /\ pc = "wait"
    /\ IF reapable = "reaped"
       THEN LoopEnds                                  \* ChildProcessError: break
       ELSE IF reapable = "zombie"
       THEN Leave("sys.exit", childExit)               \* wpid == pid
       ELSE pc' = "select" /\ UNCHANGED exitVars
    /\ UNCHANGED <<rlist, running, hostVars, shellVars, ioVars, winVars>>

OldInit ==
    /\ MainSetup(OldChunks)
    /\ WinSetup({<<>>})

OldNext ==
    \/ Select
    \/ SelectError
    \/ ServePtyData
    \/ OldServePtyEnd
    \/ OldServeStdinEof
    \/ \E wrote \in BOOLEAN : OldServeStdinChunk(wrote)
    \/ OldCheckChild
    \/ HostSend(OldChunks)
    \/ HostClose
    \/ ShellWrite
    \/ ShellExit
    \/ PtyHangup
    \/ ChildReapable

SpecOld == OldInit /\ [][OldNext]_vars

\* C18: in the older relay, once the read of host input or of the PTY has
\* returned end of file (or the PTY read has failed), the loop does not start
\* another iteration: the helper is at the child-status check that follows
\* the for loop, or has ended.
C18_OldEofEndsLoop ==
    (eofSeen \/ ptyEofSeen) => pc \in {"wait", "exited"}

====
